---- MODULE Spec2Model ----
(***************************************************************************)
(* Model of the DSDL deserialization core of pyuavcan:                     *)
(*   pyuavcan/dsdl/_serialized_representation/_deserializer.py             *)
(*   pyuavcan/dsdl/_composite_object.py                                    *)
(*                                                                         *)
(* The interpreter is the default one: assert statements are executed and  *)
(* a failing assert raises AssertionError.  The host is little-endian.     *)
(***************************************************************************)
EXTENDS Integers, Sequences, FiniteSets, TLC

VARIABLES
    buf,            \* Deserializer._buf: the bytes being read
    bit_offset,     \* Deserializer._bit_offset
    aliased,        \* TRUE when _buf is the caller's own memory (no copy was made)
    last,           \* the last Deserializer call: operation, argument, cursor before, outcome, value
    top,            \* the last call of a module-level function of _composite_object.py
    installed,      \* the DSDL types whose generated packages can be imported
    obj,            \* the attributes of an object of a generated class, by Python name
    held            \* the array the caller holds from a fetch: its memory and what it showed

vars == <<buf, bit_offset, aliased, last, top, installed, obj, held>>

(***************************************************************************)
(* Bounds of the model.                                                    *)
(***************************************************************************)
MaxBytes == 8       \* longest buffer handed to Deserializer.new
MaxArg == 9         \* largest bit_length / inclusive_minimum argument
MaxCount == 3       \* largest byte count argument
MaxNeg == 1         \* arguments range from -MaxNeg
MaxUnderrun == 2    \* calls are explored while bit_offset >= -MaxUnderrun

\* The first bytes of the buffer of the module's unit test.
SampleAligned == <<167, 239, 205, 171, 144, 120, 86, 52, 18, 136, 169, 203>>

Buffers == { SubSeq(SampleAligned, 1, n) : n \in 0..MaxBytes }

Args == (0 - MaxNeg)..MaxArg
Counts == (0 - MaxNeg)..MaxCount

(***************************************************************************)
(* Python and numpy primitives used by the code.                           *)
(***************************************************************************)
Min(a, b) == IF a < b THEN a ELSE b
Max(a, b) == IF a > b THEN a ELSE b

RECURSIVE Pow2(_)
Pow2(n) == IF n <= 0 THEN 1 ELSE 2 * Pow2(n - 1)

\* x >> n and (x << n) & 0xFF on a byte
ShiftRight(x, n) == x \div Pow2(n)
ShiftLeftByte(x, n) == (x * Pow2(n)) % 256

\* a[i] with an integer index: negative indices count from the end,
\* anything outside -len .. len-1 raises IndexError
InRange(a, i) == (0 - Len(a)) <= i /\ i < Len(a)
At(a, i) == IF i >= 0 THEN a[i + 1] ELSE a[Len(a) + i + 1]

\* a[lo:hi]: negative bounds count from the end, bounds are clamped, never raises
SliceBound(a, x) == IF x < 0 THEN Max(x + Len(a), 0) ELSE Min(x, Len(a))
Slice(a, lo, hi) ==
    LET l == SliceBound(a, lo)
        h == SliceBound(a, hi)
    IN  IF l < h THEN SubSeq(a, l + 1, h) ELSE <<>>

\* numpy.unpackbits: eight bits per byte, most significant bit first
unpackbits(bs) ==
    [k \in 1..(8 * Len(bs)) |->
        (bs[((k - 1) \div 8) + 1] \div Pow2(7 - ((k - 1) % 8))) % 2]

(***************************************************************************)
(* Values returned to the caller.                                          *)
(***************************************************************************)
NoneVal == [tag |-> "None", n |-> 0, seq |-> <<>>]
IntVal(x) == [tag |-> "int", n |-> x, seq |-> <<>>]
BoolVal(x) == [tag |-> "bool", n |-> x, seq |-> <<>>]
BytesVal(s) == [tag |-> "bytes", n |-> 0, seq |-> s]
BitsVal(s) == [tag |-> "bits", n |-> 0, seq |-> s]
FloatVal(s) == [tag |-> "float", n |-> 0, seq |-> s]
\* an integer beyond the 32 bits of TLC: 16-bit limbs, least significant first,
\* n = 1 when 2 ** bit_length is subtracted (the signed forms)
WideVal(limbs, neg) == [tag |-> "wide", n |-> neg, seq |-> limbs]

\* an object without attributes
NoObject == [a \in {} |-> NoneVal]

\* The memory of an array: its own, or the input from byte `start` on (a slice
\* of _buf and numpy.frombuffer over it share the memory of _buf).
Fresh == [owner |-> "own", start |-> 0]
View(start) == [owner |-> "input", start |-> start]
\* no array is held
NoArray == [op |-> "none", before |-> 0, memory |-> Fresh, itemsize |-> 0, count |-> 0,
            data |-> <<>>, changes |-> 0]   \* changes: writes to the input so far

\* The outcome of one call: the cursor it leaves, how it ended, what it returned.
Ok(off, v) == [off |-> off, outcome |-> "ok", value |-> v]
Raise(off, exc) == [off |-> off, outcome |-> exc, value |-> NoneVal]

(***************************************************************************)
(* Deserializer                                                            *)
(***************************************************************************)
consumed_bit_length(b, off) == off
\* remaining_bit_length counted in the whole bytes not yet begun
remaining_bit_length_in_whole_bytes(b, off) == (Len(b) - (off \div 8)) * 8
remaining_bit_length(b, off) == Len(b) * 8 - off
byte_offset(off) == off \div 8

require_remaining_bit_length(b, off, inclusive_minimum) ==
    IF remaining_bit_length(b, off) < inclusive_minimum
    THEN Raise(off, "FormatError")
    ELSE Ok(off, NoneVal)

skip_bits(b, off, bit_length) ==
    IF remaining_bit_length(b, off) >= bit_length
    THEN Ok(off + bit_length, NoneVal)
    ELSE Raise(off, "IndexError")

fetch_aligned_array_of_bits(b, off, count) ==
    IF off % 8 # 0 THEN Raise(off, "AssertionError")
    ELSE LET bs == Slice(b, byte_offset(off), byte_offset(off) + (count + 7) \div 8)
             out == Slice(unpackbits(bs), 0, count)
         IN  IF Len(out) # count THEN Raise(off, "IndexError")
             ELSE Ok(off + count, BitsVal(out))

fetch_aligned_bytes(b, off, count) ==
    IF off % 8 # 0 THEN Raise(off, "AssertionError")
    ELSE LET out == Slice(b, byte_offset(off), byte_offset(off) + count)
         IN  IF Len(out) # count THEN Raise(off, "IndexError")
             ELSE Ok(off + count * 8, BytesVal(out))

fetch_aligned_u8(b, off) ==
    IF off % 8 # 0 THEN Raise(off, "AssertionError")
    ELSE IF ~InRange(b, byte_offset(off)) THEN Raise(off, "IndexError")
    ELSE Ok(off + 8, IntVal(At(b, byte_offset(off))))

\* fetch_aligned_u16 with the first byte as the most significant
fetch_aligned_u16_big_endian(b, off) ==
    LET hi == fetch_aligned_u8(b, off)
    IN  IF hi.outcome # "ok" THEN hi
        ELSE LET lo == fetch_aligned_u8(b, hi.off)
             IN  IF lo.outcome # "ok" THEN lo
                 ELSE Ok(lo.off, IntVal(lo.value.n + hi.value.n * 256))

fetch_aligned_u16(b, off) ==
    LET lo == fetch_aligned_u8(b, off)
    IN  IF lo.outcome # "ok" THEN lo
        ELSE LET hi == fetch_aligned_u8(b, lo.off)
             IN  IF hi.outcome # "ok" THEN hi
                 ELSE Ok(hi.off, IntVal(lo.value.n + hi.value.n * 256))

fetch_aligned_u32(b, off) ==
    LET lo == fetch_aligned_u16(b, off)
    IN  IF lo.outcome # "ok" THEN lo
        ELSE LET hi == fetch_aligned_u16(b, lo.off)
             IN  IF hi.outcome # "ok" THEN hi
                 ELSE Ok(hi.off, WideVal(<<lo.value.n, hi.value.n>>, 0))

fetch_aligned_u64(b, off) ==
    LET lo == fetch_aligned_u32(b, off)
    IN  IF lo.outcome # "ok" THEN lo
        ELSE LET hi == fetch_aligned_u32(b, lo.off)
             IN  IF hi.outcome # "ok" THEN hi
                 ELSE Ok(hi.off, WideVal(lo.value.seq \o hi.value.seq, 0))

fetch_aligned_i8(b, off) ==
    LET x == fetch_aligned_u8(b, off)
    IN  IF x.outcome # "ok" THEN x
        ELSE Ok(x.off, IntVal(IF x.value.n >= 128 THEN x.value.n - 256 ELSE x.value.n))

fetch_aligned_i16(b, off) ==
    LET x == fetch_aligned_u16(b, off)
    IN  IF x.outcome # "ok" THEN x
        ELSE Ok(x.off, IntVal(IF x.value.n >= 32768 THEN x.value.n - 65536 ELSE x.value.n))

\* x >= 2 ** 31 (2 ** 63) is decided by the top bit of the most significant limb
fetch_aligned_i32(b, off) ==
    LET x == fetch_aligned_u32(b, off)
    IN  IF x.outcome # "ok" THEN x
        ELSE Ok(x.off, WideVal(x.value.seq, IF x.value.seq[2] >= 32768 THEN 1 ELSE 0))

fetch_aligned_i64(b, off) ==
    LET x == fetch_aligned_u64(b, off)
    IN  IF x.outcome # "ok" THEN x
        ELSE Ok(x.off, WideVal(x.value.seq, IF x.value.seq[4] >= 32768 THEN 1 ELSE 0))

\* struct.unpack('<e' / '<f' / '<d', bytes): every bit pattern is a float;
\* the value is kept as the bytes it was unpacked from
struct_unpack(r) == IF r.outcome # "ok" THEN r ELSE Ok(r.off, FloatVal(r.value.seq))

fetch_aligned_f16(b, off) == struct_unpack(fetch_aligned_bytes(b, off, 2))
fetch_aligned_f32(b, off) == struct_unpack(fetch_aligned_bytes(b, off, 4))
fetch_aligned_f64(b, off) == struct_unpack(fetch_aligned_bytes(b, off, 8))

(***************************************************************************)
(* Aligned start, any bit length.                                          *)
(***************************************************************************)
RECURSIVE SumBytes(_, _)
\* out |= int(x[i]) << (i * 8) for i in range(k)
SumBytes(x, k) == IF k <= 0 THEN 0 ELSE SumBytes(x, k - 1) + x[k] * Pow2(8 * (k - 1))

\* the Python int made of the bytes x[1..k], least significant first: a number
\* up to three bytes, 16-bit limbs beyond
int_from_bytes(x, k) ==
    IF k <= 3 THEN IntVal(SumBytes(x, k))
    ELSE WideVal([j \in 1..((k + 1) \div 2) |->
                    x[2 * j - 1] + (IF 2 * j <= k THEN 256 * x[2 * j] ELSE 0)], 0)

\* _unsigned_from_bytes without the right shift of the last byte
unsigned_from_bytes_without_shift(x, bit_length) ==
    LET num_bytes == (bit_length + 7) \div 8
    IN  IF bit_length < 1 \/ num_bytes <= 0 \/ Len(x) < num_bytes
        THEN [ok |-> FALSE, value |-> NoneVal]
        ELSE [ok |-> TRUE, value |-> int_from_bytes(x, num_bytes)]

\* _unsigned_from_bytes taking the low bits of the last byte instead of the high
unsigned_from_bytes_low_bits(x, bit_length) ==
    LET num_bytes == (bit_length + 7) \div 8
        used == IF bit_length % 8 = 0 THEN 8 ELSE bit_length % 8
    IN  IF bit_length < 1 \/ num_bytes <= 0 \/ Len(x) < num_bytes
        THEN [ok |-> FALSE, value |-> NoneVal]
        ELSE [ok |-> TRUE,
              value |-> int_from_bytes([x EXCEPT ![num_bytes] = @ % Pow2(used)], num_bytes)]

\* Deserializer._unsigned_from_bytes; FALSE in "ok" is a failed assert
unsigned_from_bytes(x, bit_length) ==
    LET num_bytes == (bit_length + 7) \div 8
        shift == (8 - (bit_length % 8)) % 8
    IN  IF bit_length < 1 \/ num_bytes <= 0 \/ Len(x) < num_bytes
        THEN [ok |-> FALSE, value |-> NoneVal]
        ELSE [ok |-> TRUE,
              value |-> int_from_bytes([x EXCEPT ![num_bytes] = ShiftRight(@, shift)],
                                       num_bytes)]

\* the cursor has already moved when _unsigned_from_bytes runs
from_bytes_result(off, bs, bit_length) ==
    LET u == unsigned_from_bytes(bs, bit_length)
    IN  IF u.ok THEN Ok(off, u.value) ELSE Raise(off, "AssertionError")

\* u >= 2 ** (bit_length - 1): the top bit of the bit_length bits is set
TopBitSet(v, bit_length) ==
    IF v.tag = "int" THEN v.n >= Pow2(bit_length - 1)
    ELSE (v.seq[((bit_length - 1) \div 16) + 1] \div Pow2((bit_length - 1) % 16)) % 2 = 1

\* to_signed with the sign decided by the lowest bit
to_signed_by_lowest_bit(r, bit_length) ==
    IF r.outcome # "ok" THEN r
    ELSE IF r.value.tag = "int"
         THEN Ok(r.off, IntVal(IF r.value.n % 2 = 1
                               THEN r.value.n - Pow2(bit_length) ELSE r.value.n))
         ELSE Ok(r.off, WideVal(r.value.seq, r.value.seq[1] % 2))

\* (u - 2 ** bit_length) if u >= 2 ** (bit_length - 1) else u
to_signed(r, bit_length) ==
    IF r.outcome # "ok" THEN r
    ELSE IF r.value.tag = "int"
         THEN Ok(r.off, IntVal(IF TopBitSet(r.value, bit_length)
                               THEN r.value.n - Pow2(bit_length) ELSE r.value.n))
         ELSE Ok(r.off, WideVal(r.value.seq, IF TopBitSet(r.value, bit_length) THEN 1 ELSE 0))

fetch_aligned_unsigned(b, off, bit_length) ==
    IF off % 8 # 0 THEN Raise(off, "AssertionError")
    ELSE LET bs == Slice(b, byte_offset(off), byte_offset(off) + (bit_length + 7) \div 8)
         IN  IF Len(bs) * 8 < bit_length THEN Raise(off, "IndexError")
             ELSE from_bytes_result(off + bit_length, bs, bit_length)

fetch_aligned_signed(b, off, bit_length) ==
    IF bit_length < 2 THEN Raise(off, "AssertionError")
    ELSE to_signed(fetch_aligned_unsigned(b, off, bit_length), bit_length)

(***************************************************************************)
(* No assumption about alignment.                                          *)
(***************************************************************************)
RECURSIVE unaligned_copy_loop(_, _, _, _, _)
\* for i in range(last_index): out[i] = ...; self._bit_offset += 8
\* `left` is computed once, before the loop
unaligned_copy_loop(b, off, left, todo, out) ==
    IF todo <= 0 THEN [off |-> off, outcome |-> "ok", out |-> out]
    ELSE IF ~InRange(b, byte_offset(off)) \/ ~InRange(b, byte_offset(off) + 1)
         THEN [off |-> off, outcome |-> "IndexError", out |-> out]
         ELSE unaligned_copy_loop(b, off + 8, left, todo - 1,
                Append(out, ShiftLeftByte(At(b, byte_offset(off)), left)
                            + ShiftRight(At(b, byte_offset(off) + 1), 8 - left)))

\* fetch_unaligned_bytes without the try / except around the read of the byte
\* after the last one
fetch_unaligned_bytes_without_except(b, off, count) ==
    IF count > 0
    THEN IF off % 8 # 0
         THEN LET left == off % 8
                  right == 8 - left
                  loop == unaligned_copy_loop(b, off, left, count - 1, <<>>)
              IN  IF loop.outcome # "ok" THEN Raise(loop.off, loop.outcome)
                  ELSE IF ~InRange(b, byte_offset(loop.off)) THEN Raise(loop.off, "IndexError")
                  ELSE IF ~InRange(b, byte_offset(loop.off + 8))
                       THEN Raise(loop.off + 8, "IndexError")
                  ELSE Ok(loop.off + 8,
                          BytesVal(Append(loop.out,
                              ShiftLeftByte(At(b, byte_offset(loop.off)), left)
                              + ShiftRight(At(b, byte_offset(loop.off + 8)), right))))
         ELSE fetch_aligned_bytes(b, off, count)
    ELSE Ok(off, BytesVal(<<>>))

fetch_unaligned_bytes(b, off, count) ==
    IF count > 0
    THEN IF off % 8 # 0
         THEN LET left == off % 8
                  right == 8 - left
                  loop == unaligned_copy_loop(b, off, left, count - 1, <<>>)
              IN  IF loop.outcome # "ok" THEN Raise(loop.off, loop.outcome)
                  ELSE IF ~InRange(b, byte_offset(loop.off)) THEN Raise(loop.off, "IndexError")
                  ELSE LET x == ShiftLeftByte(At(b, byte_offset(loop.off)), left)
                           after == loop.off + 8
                           \* except IndexError: pass
                           low == IF InRange(b, byte_offset(after))
                                  THEN ShiftRight(At(b, byte_offset(after)), right)
                                  ELSE 0
                       IN  Ok(after, BytesVal(Append(loop.out, x + low)))
         ELSE fetch_aligned_bytes(b, off, count)
    ELSE Ok(off, BytesVal(<<>>))

fetch_unaligned_array_of_bits(b, off, count) ==
    LET byte_count == (count + 7) \div 8
        bs == fetch_unaligned_bytes(b, off, byte_count)
        backtrack == byte_count * 8 - count
    IN  IF bs.outcome # "ok" THEN bs
        ELSE IF Len(bs.value.seq) # byte_count THEN Raise(bs.off, "AssertionError")
        ELSE IF ~(0 <= backtrack /\ backtrack < 8) THEN Raise(bs.off, "AssertionError")
        ELSE LET out == Slice(unpackbits(bs.value.seq), 0, count)
             IN  IF Len(out) # count THEN Raise(bs.off - backtrack, "AssertionError")
                 ELSE Ok(bs.off - backtrack, BitsVal(out))

\* fetch_unaligned_unsigned without "self._bit_offset -= backtrack"
fetch_unaligned_unsigned_no_backtrack(b, off, bit_length) ==
    LET byte_length == (bit_length + 7) \div 8
        bs == fetch_unaligned_bytes(b, off, byte_length)
    IN  IF bs.outcome # "ok" THEN bs
        ELSE IF Len(bs.value.seq) # byte_length THEN Raise(bs.off, "AssertionError")
        ELSE from_bytes_result(bs.off, bs.value.seq, bit_length)

fetch_unaligned_unsigned(b, off, bit_length) ==
    LET byte_length == (bit_length + 7) \div 8
        bs == fetch_unaligned_bytes(b, off, byte_length)
        backtrack == byte_length * 8 - bit_length
    IN  IF bs.outcome # "ok" THEN bs
        ELSE IF Len(bs.value.seq) # byte_length THEN Raise(bs.off, "AssertionError")
        ELSE IF ~(0 <= backtrack /\ backtrack < 8) THEN Raise(bs.off, "AssertionError")
        ELSE from_bytes_result(bs.off - backtrack, bs.value.seq, bit_length)

fetch_unaligned_signed(b, off, bit_length) ==
    IF bit_length < 2 THEN Raise(off, "AssertionError")
    ELSE to_signed(fetch_unaligned_unsigned(b, off, bit_length), bit_length)

fetch_unaligned_f16(b, off) == struct_unpack(fetch_unaligned_bytes(b, off, 2))
fetch_unaligned_f32(b, off) == struct_unpack(fetch_unaligned_bytes(b, off, 4))
fetch_unaligned_f64(b, off) == struct_unpack(fetch_unaligned_bytes(b, off, 8))

\* fetch_unaligned_bit counting the bits of a byte from the least significant
fetch_unaligned_bit_lsb_first(b, off) ==
    LET mask == Pow2(off % 8)
    IN  IF ~InRange(b, byte_offset(off)) THEN Raise(off, "IndexError")
        ELSE Ok(off + 1, BoolVal((At(b, byte_offset(off)) \div mask) % 2))

fetch_unaligned_bit(b, off) ==
    LET mask == Pow2(7 - (off % 8))
    IN  IF ~InRange(b, byte_offset(off)) THEN Raise(off, "IndexError")
        ELSE Ok(off + 1, BoolVal((At(b, byte_offset(off)) \div mask) % 2))

(***************************************************************************)
(* The Deserializer as a state machine: one action per method.             *)
(***************************************************************************)
NoTop == [fn |-> "none", dtype |-> "", fragments |-> <<>>, logged |-> FALSE,
          outcome |-> "ok", value |-> NoneVal]

\* Deserializer.new(source_bytes): the buffer is referenced, not copied
Init ==
    /\ buf \in Buffers
    /\ bit_offset = 0
    /\ aliased = TRUE
    /\ last = [op |-> "new", dtype |-> "", arg |-> 0, before |-> 0,
               outcome |-> "ok", value |-> NoneVal]
    /\ top = NoTop
    /\ installed = {}
    /\ obj = NoObject
    /\ held = NoArray

\* a method call with result r; no method writes to the buffer
Call(op, arg, result) ==
    /\ bit_offset >= 0 - MaxUnderrun
    /\ \E r \in {result} :
        /\ bit_offset' = r.off
        /\ last' = [op |-> op, dtype |-> "", arg |-> arg, before |-> bit_offset,
                    outcome |-> r.outcome, value |-> r.value]
    /\ UNCHANGED <<buf, aliased, top, installed, obj, held>>

RequireRemainingBitLength ==
    \E m \in Args : Call("require_remaining_bit_length", m,
                         require_remaining_bit_length(buf, bit_offset, m))
SkipBits ==
    \E n \in Args : Call("skip_bits", n, skip_bits(buf, bit_offset, n))
FetchAlignedArrayOfBits ==
    \E n \in Args : Call("fetch_aligned_array_of_bits", n,
                         fetch_aligned_array_of_bits(buf, bit_offset, n))
FetchAlignedBytes ==
    \E n \in Counts : Call("fetch_aligned_bytes", n, fetch_aligned_bytes(buf, bit_offset, n))
FetchAlignedU8 == Call("fetch_aligned_u8", 8, fetch_aligned_u8(buf, bit_offset))
FetchAlignedU16 == Call("fetch_aligned_u16", 16, fetch_aligned_u16(buf, bit_offset))
FetchAlignedU32 == Call("fetch_aligned_u32", 32, fetch_aligned_u32(buf, bit_offset))
FetchAlignedU64 == Call("fetch_aligned_u64", 64, fetch_aligned_u64(buf, bit_offset))
FetchAlignedI8 == Call("fetch_aligned_i8", 8, fetch_aligned_i8(buf, bit_offset))
FetchAlignedI16 == Call("fetch_aligned_i16", 16, fetch_aligned_i16(buf, bit_offset))
FetchAlignedI32 == Call("fetch_aligned_i32", 32, fetch_aligned_i32(buf, bit_offset))
FetchAlignedI64 == Call("fetch_aligned_i64", 64, fetch_aligned_i64(buf, bit_offset))
FetchAlignedF16 == Call("fetch_aligned_f16", 16, fetch_aligned_f16(buf, bit_offset))
FetchAlignedF32 == Call("fetch_aligned_f32", 32, fetch_aligned_f32(buf, bit_offset))
FetchAlignedF64 == Call("fetch_aligned_f64", 64, fetch_aligned_f64(buf, bit_offset))
FetchAlignedUnsigned ==
    \E n \in Args : Call("fetch_aligned_unsigned", n, fetch_aligned_unsigned(buf, bit_offset, n))
FetchAlignedSigned ==
    \E n \in Args : Call("fetch_aligned_signed", n, fetch_aligned_signed(buf, bit_offset, n))
FetchUnalignedArrayOfBits ==
    \E n \in Args : Call("fetch_unaligned_array_of_bits", n,
                         fetch_unaligned_array_of_bits(buf, bit_offset, n))
FetchUnalignedBytes ==
    \E n \in Counts : Call("fetch_unaligned_bytes", n, fetch_unaligned_bytes(buf, bit_offset, n))
FetchUnalignedUnsigned ==
    \E n \in Args : Call("fetch_unaligned_unsigned", n,
                         fetch_unaligned_unsigned(buf, bit_offset, n))
FetchUnalignedSigned ==
    \E n \in Args : Call("fetch_unaligned_signed", n, fetch_unaligned_signed(buf, bit_offset, n))
FetchUnalignedF16 == Call("fetch_unaligned_f16", 16, fetch_unaligned_f16(buf, bit_offset))
FetchUnalignedF32 == Call("fetch_unaligned_f32", 32, fetch_unaligned_f32(buf, bit_offset))
FetchUnalignedF64 == Call("fetch_unaligned_f64", 64, fetch_unaligned_f64(buf, bit_offset))
FetchUnalignedBit == Call("fetch_unaligned_bit", 1, fetch_unaligned_bit(buf, bit_offset))

Next ==
    \/ RequireRemainingBitLength
    \/ SkipBits
    \/ FetchAlignedArrayOfBits
    \/ FetchAlignedBytes
    \/ FetchAlignedU8
    \/ FetchAlignedU16
    \/ FetchAlignedU32
    \/ FetchAlignedU64
    \/ FetchAlignedI8
    \/ FetchAlignedI16
    \/ FetchAlignedI32
    \/ FetchAlignedI64
    \/ FetchAlignedF16
    \/ FetchAlignedF32
    \/ FetchAlignedF64
    \/ FetchAlignedUnsigned
    \/ FetchAlignedSigned
    \/ FetchUnalignedArrayOfBits
    \/ FetchUnalignedBytes
    \/ FetchUnalignedUnsigned
    \/ FetchUnalignedSigned
    \/ FetchUnalignedF16
    \/ FetchUnalignedF32
    \/ FetchUnalignedF64
    \/ FetchUnalignedBit

Spec == Init /\ [][Next]_vars

(***************************************************************************)
(* Generated classes (the adapters).  The generator is not part of the     *)
(* sources; the classes below follow the contract of                       *)
(* CompositeObject._deserialize_aligned_: read the fields in order through *)
(* the Deserializer, raise FormatError on an invalid representation,       *)
(* return an object otherwise.                                             *)
(***************************************************************************)
Step(op, arg, type) == [op |-> op, arg |-> arg, type |-> type]

\* the base class of each generated class
BaseClass(dtype) ==
    CASE dtype = "GetInfo_1_0" -> "ServiceObject"
      [] dtype = "Access_1_0" -> "FixedPortServiceObject"
      [] dtype = "Heartbeat_1_0" -> "FixedPortCompositeObject"
      [] OTHER -> "CompositeObject"

\* the body of the generated _deserialize_aligned_
GeneratedBody(dtype) ==
    CASE dtype = "Empty_1_0" -> <<>>
      [] dtype = "Heartbeat_1_0" ->
            <<Step("require", 8, ""), Step("u8", 0, "")>>
      \* a length prefix that must not exceed the capacity of the array
      [] dtype = "Tagged_1_0" ->
            <<Step("require", 8, ""), Step("u8", 0, ""), Step("at_most", 1, "")>>
      [] dtype = "Outer_1_0" ->
            <<Step("require", 16, ""), Step("u8", 0, ""), Step("nested", 0, "Tagged_1_0")>>
      \* a faulty generated body: reads without the length pre-check
      [] dtype = "Unchecked_1_0" -> <<Step("u16", 0, "")>>
      \* a faulty generated body: aligned read at an unaligned cursor
      [] dtype = "Misaligned_1_0" ->
            <<Step("require", 9, ""), Step("bit", 0, ""), Step("u8", 0, "")>>
      [] OTHER -> <<>>

DTypes == {"Empty_1_0", "Heartbeat_1_0", "Tagged_1_0", "Outer_1_0", "Unchecked_1_0",
           "Misaligned_1_0", "GetInfo_1_0", "Access_1_0"}
ServiceDTypes == {d \in DTypes : BaseClass(d) \in {"ServiceObject", "FixedPortServiceObject"}}

\* a service stub that reports invalid input instead of refusing
ServiceObject_deserialize_aligned_FormatError(b, off) == Raise(off, "FormatError")

\* ServiceObject._deserialize_aligned_ and ServiceObject._serialize_aligned_
ServiceObject_deserialize_aligned(b, off) == Raise(off, "TypeError")
ServiceObject_serialize_aligned(ser) == Raise(ser, "TypeError")

RECURSIVE RunBody(_, _, _, _, _)
\* runs the steps from the i-th on; an exception ends the body at once
RunBody(dtype, i, b, off, fields) ==
    LET body == GeneratedBody(dtype)
    IN  IF i > Len(body) THEN Ok(off, [tag |-> dtype, n |-> 0, seq |-> fields])
        ELSE LET st == body[i]
                 r == CASE st.op = "require" -> require_remaining_bit_length(b, off, st.arg)
                        [] st.op = "u8" -> fetch_aligned_u8(b, off)
                        [] st.op = "u16" -> fetch_aligned_u16(b, off)
                        [] st.op = "bit" -> fetch_unaligned_bit(b, off)
                        [] st.op = "at_most" ->
                              IF fields[Len(fields)] > st.arg
                              THEN Raise(off, "FormatError") ELSE Ok(off, NoneVal)
                        [] st.op = "nested" ->
                              IF BaseClass(st.type) \in {"ServiceObject", "FixedPortServiceObject"}
                              THEN ServiceObject_deserialize_aligned(b, off)
                              ELSE RunBody(st.type, 1, b, off, <<>>)
             IN  IF r.outcome # "ok" THEN r
                 ELSE RunBody(dtype, i + 1, b, r.off,
                              IF r.value.tag \in {"int", "bool"} THEN Append(fields, r.value.n)
                              ELSE fields \o r.value.seq)

\* dtype._deserialize_aligned_(_des_): the service classes inherit the stub
deserialize_aligned(dtype, b, off) ==
    IF BaseClass(dtype) \in {"ServiceObject", "FixedPortServiceObject"}
    THEN ServiceObject_deserialize_aligned(b, off)
    ELSE RunBody(dtype, 1, b, off, <<>>)

(***************************************************************************)
(* deserialize                                                             *)
(***************************************************************************)
MaxFragments == 2       \* longest fragment sequence handed to deserialize

SampleFragments == {<<>>, <<1>>, <<200>>, <<1, 200>>}

RECURSIVE FragmentLists(_)
FragmentLists(k) ==
    IF k = 0 THEN {<<>>}
    ELSE FragmentLists(k - 1)
         \cup {Append(fs, f) : fs \in {x \in FragmentLists(k - 1) : Len(x) = k - 1},
                               f \in SampleFragments}
AllFragmentLists == FragmentLists(MaxFragments)

RECURSIVE bytearray_join_reversed(_)
\* joins the fragments last to first
bytearray_join_reversed(fragments) ==
    IF fragments = <<>> THEN <<>>
    ELSE bytearray_join_reversed(Tail(fragments)) \o Head(fragments)

RECURSIVE bytearray_join(_)
\* bytearray().join(fragments)
bytearray_join(fragments) ==
    IF fragments = <<>> THEN <<>>
    ELSE Head(fragments) \o bytearray_join(Tail(fragments))

\* "except (FormatError, IndexError)": an overrun is taken for invalid input
deserialize_result_catching_IndexError(r) ==
    IF r.outcome = "ok" THEN [outcome |-> "ok", value |-> r.value]
    ELSE IF r.outcome \in {"FormatError", "IndexError"} THEN [outcome |-> "ok", value |-> NoneVal]
    ELSE [outcome |-> r.outcome, value |-> NoneVal]

\* the try / except of deserialize: FormatError becomes None, anything else propagates
deserialize_result(r) ==
    IF r.outcome = "ok" THEN [outcome |-> "ok", value |-> r.value]
    ELSE IF r.outcome = "FormatError" THEN [outcome |-> "ok", value |-> NoneVal]
    ELSE [outcome |-> r.outcome, value |-> NoneVal]

deserialize(dtype, fragments, info_enabled) ==
    LET one == Len(fragments) = 1
        contiguous == IF one THEN fragments[1] ELSE bytearray_join(fragments)
        r == deserialize_aligned(dtype, contiguous, 0)
        res == deserialize_result(r)
    IN  [buf |-> contiguous, aliased |-> one, inner |-> r,
         logged |-> (r.outcome = "FormatError" /\ info_enabled),
         outcome |-> res.outcome, value |-> res.value]

\* no Deserializer has been made yet
InitTop ==
    /\ buf = <<>>
    /\ bit_offset = 0
    /\ aliased = FALSE
    /\ last = [op |-> "none", dtype |-> "", arg |-> 0, before |-> 0,
               outcome |-> "ok", value |-> NoneVal]
    /\ top = NoTop
    /\ installed = {}
    /\ obj = NoObject
    /\ held = NoArray

\* deserialize(dtype, fragmented_serialized_representation); the state shows the
\* Deserializer it made as the call left it
Deserialize ==
    \E dtype \in DTypes, fragments \in AllFragmentLists, info_enabled \in BOOLEAN :
        \E d \in {deserialize(dtype, fragments, info_enabled)} :
            /\ buf' = d.buf
            /\ bit_offset' = d.inner.off
            /\ aliased' = d.aliased
            /\ last' = [op |-> "_deserialize_aligned_", dtype |-> dtype, arg |-> 0, before |-> 0,
                        outcome |-> d.inner.outcome, value |-> d.inner.value]
            /\ top' = [fn |-> "deserialize", dtype |-> dtype, fragments |-> fragments,
                       logged |-> d.logged, outcome |-> d.outcome, value |-> d.value]
            /\ UNCHANGED <<installed, obj, held>>

\* dtype._deserialize_aligned_(_des_) called on the Deserializer as it stands
DeserializeAligned ==
    \E dtype \in DTypes :
        \E r \in {deserialize_aligned(dtype, buf, bit_offset)} :
            /\ bit_offset' = r.off
            /\ last' = [op |-> "_deserialize_aligned_", dtype |-> dtype, arg |-> 0,
                        before |-> bit_offset, outcome |-> r.outcome, value |-> r.value]
            /\ top' = NoTop
            /\ UNCHANGED <<buf, aliased, installed, obj, held>>

\* obj._serialize_aligned_(_ser_) on an instance of a service class
ServiceSerializeAligned ==
    \E dtype \in ServiceDTypes :
        LET r == ServiceObject_serialize_aligned(0)
        IN  /\ last' = [op |-> "_serialize_aligned_", dtype |-> dtype, arg |-> 0,
                        before |-> bit_offset, outcome |-> r.outcome, value |-> r.value]
            /\ top' = NoTop
            /\ UNCHANGED <<buf, bit_offset, aliased, installed, obj, held>>

NextTop ==
    \/ Deserialize
    \/ DeserializeAligned
    \/ ServiceSerializeAligned

SpecTop == InitTop /\ [][NextTop]_vars

(***************************************************************************)
(* Properties of the Deserializer.                                         *)
(***************************************************************************)
ByteCountOps == {"fetch_aligned_bytes", "fetch_unaligned_bytes"}
AlignedOps == {"fetch_aligned_array_of_bits", "fetch_aligned_bytes", "fetch_aligned_u8",
               "fetch_aligned_u16", "fetch_aligned_u32", "fetch_aligned_u64",
               "fetch_aligned_i8", "fetch_aligned_i16", "fetch_aligned_i32",
               "fetch_aligned_i64", "fetch_aligned_f16", "fetch_aligned_f32",
               "fetch_aligned_f64", "fetch_aligned_unsigned", "fetch_aligned_signed"}
UnalignedOps == {"fetch_unaligned_array_of_bits", "fetch_unaligned_bytes",
                 "fetch_unaligned_unsigned", "fetch_unaligned_signed", "fetch_unaligned_f16",
                 "fetch_unaligned_f32", "fetch_unaligned_f64", "fetch_unaligned_bit"}
ConsumingOps == AlignedOps \cup UnalignedOps \cup {"skip_bits"}

\* the number of bits the last call asked for
DemandedBits == IF last.op \in ByteCountOps THEN 8 * last.arg ELSE last.arg
\* the last call was made as its assert statements require
CalledAsRequired ==
    /\ last.op \in AlignedOps => last.before % 8 = 0
    /\ last.op \in {"fetch_aligned_unsigned", "fetch_unaligned_unsigned"} => last.arg >= 1
    /\ last.op \in {"fetch_aligned_signed", "fetch_unaligned_signed"} => last.arg >= 2
    /\ last.arg >= 0
RemainingBefore == Len(buf) * 8 - last.before
\* the last call had no negative argument and started with the cursor inside the input
StartedInside == last.arg >= 0 /\ 0 <= last.before /\ last.before <= 8 * Len(buf)

\* C1: in every reachable state the cursor is inside the input,
\* 0 <= consumed_bit_length <= 8 * N (remaining_bit_length is never negative).
\* Stated as the step every such sequence is made of: a call without a negative
\* argument, made with the cursor inside the input, leaves it inside.
C1_CursorInsideInput ==
    StartedInside =>
    /\ 0 <= consumed_bit_length(buf, bit_offset)
    /\ consumed_bit_length(buf, bit_offset) <= 8 * Len(buf)
    /\ remaining_bit_length(buf, bit_offset) >= 0

\* C2: a skip or fetch that demands more bits than remain raises IndexError;
\* it returns no value and raises no FormatError.
C2_OverrunRaisesIndexError ==
    (/\ last.op \in ConsumingOps
     /\ CalledAsRequired
     /\ last.before >= 0
     /\ DemandedBits > RemainingBefore)
        => last.outcome = "IndexError"

\* C4: require_remaining_bit_length(m) raises FormatError exactly when fewer than m
\* bits remain and never moves the cursor; in every reachable state m = 0 is
\* accepted and m = 8 * N + 1 is rejected.  The states looked at are those a call
\* without a negative argument reaches from a cursor inside the input.
C4_RequireRemaining ==
    StartedInside =>
    /\ last.op = "require_remaining_bit_length" =>
            /\ (last.outcome = "FormatError") = (RemainingBefore < last.arg)
            /\ last.outcome \in {"ok", "FormatError"}
            /\ bit_offset = last.before
    /\ require_remaining_bit_length(buf, bit_offset, 0).outcome = "ok"
    /\ require_remaining_bit_length(buf, bit_offset, 8 * Len(buf) + 1).outcome = "FormatError"

\* C5 as claimed: every call that completes for a bit length L (8 * n for the
\* byte reads) leaves the cursor exactly L bits further.
C5_AdvanceExactlyL ==
    (last.op \in ConsumingOps /\ last.outcome = "ok")
        => bit_offset = last.before + DemandedBits

\* C5 as amended: the same, except that fetch_unaligned_bytes(n) with n < 0
\* returns an empty array and leaves the cursor where it was.
C5_AdvanceExactlyL_Amended ==
    (last.op \in ConsumingOps /\ last.outcome = "ok")
        => IF last.op = "fetch_unaligned_bytes" /\ last.arg < 0
           THEN bit_offset = last.before
           ELSE bit_offset = last.before + DemandedBits

\* an unaligned read of a bit length that is no multiple of 8, from an unaligned
\* cursor, that ends at the last bit of the buffer
C5_Witness ==
    /\ last.op = "fetch_unaligned_unsigned"
    /\ last.outcome = "ok"
    /\ last.arg % 8 # 0
    /\ last.before > 0
    /\ last.before % 8 # 0
    /\ bit_offset = 8 * Len(buf)
    /\ bit_offset = last.before + last.arg

\* C6: a fetch or skip that raises leaves consumed_bit_length as it was
\* (calls without a negative argument, made with the cursor inside the input).
C6_FailureConsumesNothing ==
    (last.op \in ConsumingOps /\ last.outcome # "ok" /\ StartedInside)
        => consumed_bit_length(buf, bit_offset) = last.before

\* C9: the cursor never moves back, and a successful read or skip of a positive
\* bit length moves it forward.
C9_MonotonicCursor ==
    /\ last.op # "new" => consumed_bit_length(buf, bit_offset) >= last.before
    /\ (last.op \in ConsumingOps /\ last.outcome = "ok" /\ DemandedBits > 0)
            => consumed_bit_length(buf, bit_offset) > last.before

(***************************************************************************)
(* Properties of deserialize and of the service classes.                   *)
(***************************************************************************)
\* C3: deserialize returns None exactly when _deserialize_aligned_ raised
\* FormatError, returns the value of _deserialize_aligned_ when it returned, and
\* raises what _deserialize_aligned_ raised otherwise; it never raises FormatError.
C3_FormatErrorBecomesNone ==
    top.fn = "deserialize" =>
        /\ (top.outcome = "ok" /\ top.value = NoneVal) = (last.outcome = "FormatError")
        /\ last.outcome = "ok" => (top.outcome = "ok" /\ top.value = last.value)
        /\ last.outcome \notin {"ok", "FormatError"} => top.outcome = last.outcome
        /\ top.outcome # "FormatError"

\* the FormatError came from the nested class, after the outer one had read its field
C3_Witness ==
    /\ top.fn = "deserialize"
    /\ top.dtype = "Outer_1_0"
    /\ last.outcome = "FormatError"
    /\ bit_offset = 16
    /\ top.outcome = "ok"
    /\ top.value = NoneVal

\* C7: _serialize_aligned_ and _deserialize_aligned_ of a service class raise
\* TypeError and leave the cursor alone; deserialize of a service class raises
\* TypeError, it does not return None.
C7_ServiceNotSerializable ==
    /\ (last.op \in {"_deserialize_aligned_", "_serialize_aligned_"}
        /\ last.dtype \in ServiceDTypes)
            => (last.outcome = "TypeError" /\ bit_offset = last.before)
    /\ (top.fn = "deserialize" /\ top.dtype \in ServiceDTypes)
            => (top.outcome = "TypeError" /\ bit_offset = 0)

\* deserialize of a service class over a non-empty input
C7_Witness ==
    /\ top.fn = "deserialize"
    /\ top.dtype = "Access_1_0"
    /\ Len(buf) > 0
    /\ top.outcome = "TypeError"

RECURSIVE InOrder(_)
\* the bytes of the fragments in order, one after the other
InOrder(fragments) ==
    IF Len(fragments) = 0 THEN <<>>
    ELSE InOrder(SubSeq(fragments, 1, Len(fragments) - 1)) \o fragments[Len(fragments)]

\* C8: deserialize gives for any fragment sequence what it gives for the single
\* fragment holding the same bytes in order; the Deserializer reads the caller's
\* fragment itself when there is exactly one, a fresh concatenation otherwise.
C8_OnlyTheConcatenationMatters ==
    top.fn = "deserialize" =>
        LET single == deserialize(top.dtype, <<InOrder(top.fragments)>>, FALSE)
        IN  /\ top.outcome = single.outcome
            /\ top.value = single.value
            /\ buf = InOrder(top.fragments)
            /\ aliased = (Len(top.fragments) = 1)

\* two different non-empty fragments, decoded to an object from a copy
C8_Witness ==
    /\ top.fn = "deserialize"
    /\ Len(top.fragments) = 2
    /\ top.fragments[1] # top.fragments[2]
    /\ top.fragments[2] # <<>>
    /\ top.fragments[1] # <<>>
    /\ top.outcome = "ok"
    /\ top.value # NoneVal
    /\ ~aliased

(***************************************************************************)
(* Classes and models: get_model, get_class.                               *)
(*                                                                         *)
(* A model (pydsdl.CompositeType) is its name components, its version and  *)
(* its kind; the Request and Response of a service carry the name of the   *)
(* service followed by their own short name and have it as parent_service. *)
(***************************************************************************)
Model(components, major, minor, kind) ==
    [name_components |-> components, major |-> major, minor |-> minor, kind |-> kind]
NoModel == Model(<<>>, 0, 0, "None")

short_name(model) == model.name_components[Len(model.name_components)]
\* None for every type that is not the Request or the Response of a service
parent_service(model) ==
    IF model.kind \in {"Request", "Response"}
    THEN Model(SubSeq(model.name_components, 1, Len(model.name_components) - 1),
               model.major, model.minor, "Service")
    ELSE NoModel
NestedModel(service, name) ==
    Model(Append(service.name_components, name), service.major, service.minor, name)

\* The DSDL types of the generated packages: two versions of one type, a type of
\* the same name in another root namespace, a namespace named like a Python
\* keyword, a namespace whose own name ends with an underscore next to the one
\* without it, and two services.
TopLevelTypes ==
    { Model(<<"uavcan", "node", "Heartbeat">>, 1, 0, "Message"),
      Model(<<"uavcan", "node", "Heartbeat">>, 1, 1, "Message"),
      Model(<<"uavcan", "node_", "Heartbeat">>, 1, 0, "Message"),
      Model(<<"uavcan", "node", "GetInfo">>, 1, 0, "Service"),
      Model(<<"uavcan", "register", "Access">>, 1, 0, "Service"),
      Model(<<"vendor", "if", "Heartbeat">>, 1, 0, "Message"),
      Model(<<"vendor", "Empty">>, 1, 0, "Message") }
AllModels ==
    TopLevelTypes \cup { NestedModel(s, n) : s \in {t \in TopLevelTypes : t.kind = "Service"},
                                             n \in {"Request", "Response"} }

\* the generator appends an underscore to the names Python reserves
ReservedWords == {"if", "def", "type"}
PyName(comp) == IF comp \in ReservedWords THEN comp \o "_" ELSE comp
PyPath(components) == [i \in 1..Len(components) |-> PyName(components[i])]
Namespace(model) == SubSeq(model.name_components, 1, Len(model.name_components) - 1)

\* a generated class: the module it lives in, its attribute name there, the
\* nested name for a Request / Response, and its _MODEL_
Class(module, name, nested, model) ==
    [module |-> module, name |-> name, nested |-> nested, model |-> model]
NoClass == Class(<<>>, "", "", NoModel)
Ref(model) == short_name(model) \o "_" \o ToString(model.major) \o "_" \o ToString(model.minor)
GeneratedClass(model) ==
    IF model.kind \in {"Request", "Response"}
    THEN Class(PyPath(Namespace(parent_service(model))), Ref(parent_service(model)),
               model.kind, model)
    ELSE Class(PyPath(Namespace(model)), Ref(model), "", model)

\* what can be imported and what the modules hold, given the installed types
Modules(inst) ==
    UNION { { SubSeq(PyPath(Namespace(t)), 1, k) : k \in 1..Len(Namespace(t)) } : t \in inst }
Classes(inst) ==
    { GeneratedClass(t) : t \in inst }
        \cup { GeneratedClass(NestedModel(s, n)) : s \in {t \in inst : t.kind = "Service"},
                                                   n \in {"Request", "Response"} }

\* importlib.import_module(name): the module, or ImportError
CanImport(inst, path) == path \in Modules(inst)

\* get_model(class_or_instance)
get_model(cls) == cls.model

\* one pass of the loop with the suffixed name tried first
import_component_suffixed_first(inst, mod, comp) ==
    LET name == Append(mod, comp)
        name_ == Append(mod, comp \o "_")
    IN  IF CanImport(inst, name_) THEN [outcome |-> "ok", mod |-> name_]
        ELSE IF CanImport(inst, name) THEN [outcome |-> "ok", mod |-> name]
        ELSE [outcome |-> "ImportError", mod |-> mod]

\* one pass of the loop: import comp under mod, or comp + '_' on ImportError;
\* mod is the path of the module imported last, <<>> for None
import_component(inst, mod, comp) ==
    LET name == Append(mod, comp)
        name_ == Append(mod, comp \o "_")
    IN  IF CanImport(inst, name) THEN [outcome |-> "ok", mod |-> name]
        ELSE IF CanImport(inst, name_) THEN [outcome |-> "ok", mod |-> name_]
        ELSE [outcome |-> "ImportError", mod |-> mod]

\* for comp in model.name_components[:-1]: ...
RECURSIVE import_namespaces(_, _, _)
import_namespaces(inst, mod, comps) ==
    IF comps = <<>> THEN [outcome |-> "ok", mod |-> mod]
    ELSE LET imp == import_component(inst, mod, Head(comps))
         IN  IF imp.outcome # "ok" THEN imp
             ELSE import_namespaces(inst, imp.mod, Tail(comps))

\* getattr(mod, ref) and getattr(service_class, short_name)
HasAttr(inst, mod, ref, nested) ==
    \E c \in Classes(inst) : c.module = mod /\ c.name = ref /\ c.nested = nested
GetAttr(inst, mod, ref, nested) ==
    CHOOSE c \in Classes(inst) : c.module = mod /\ c.name = ref /\ c.nested = nested

\* the top-level branch of get_class with the version left out of the lookup key
get_top_level_class_any_version(inst, model) ==
    LET imp == import_namespaces(inst, <<>>, Namespace(model))
        found == {c \in Classes(inst) : c.module = imp.mod /\ c.nested = ""
                                        /\ short_name(c.model) = short_name(model)}
    IN  IF imp.outcome # "ok" THEN [outcome |-> imp.outcome, cls |-> NoClass]
        ELSE IF found = {} THEN [outcome |-> "AttributeError", cls |-> NoClass]
        ELSE [outcome |-> "ok", cls |-> CHOOSE c \in found : TRUE]

\* the else branch of get_class
get_top_level_class(inst, model) ==
    LET imp == import_namespaces(inst, <<>>, Namespace(model))
        ref == Ref(model)
    IN  IF imp.outcome # "ok" THEN [outcome |-> imp.outcome, cls |-> NoClass]
        ELSE IF ~HasAttr(inst, imp.mod, ref, "") THEN [outcome |-> "AttributeError", cls |-> NoClass]
        ELSE LET out == GetAttr(inst, imp.mod, ref, "")
             IN  IF get_model(out) # model THEN [outcome |-> "AssertionError", cls |-> NoClass]
                 ELSE [outcome |-> "ok", cls |-> out]

RECURSIVE get_class(_, _)
\* get_class(model)
get_class(inst, model) ==
    IF parent_service(model) # NoModel
    THEN LET out == get_class(inst, parent_service(model))
         IN  IF out.outcome # "ok" THEN out
             ELSE IF out.cls.model.kind # "Service"
                  THEN [outcome |-> "AssertionError", cls |-> NoClass]
             ELSE IF ~HasAttr(inst, out.cls.module, out.cls.name, short_name(model))
                  THEN [outcome |-> "AttributeError", cls |-> NoClass]
             ELSE [outcome |-> "ok",
                   cls |-> GetAttr(inst, out.cls.module, out.cls.name, short_name(model))]
    ELSE get_top_level_class(inst, model)

\* the fixed_port_id of a descriptor: the regulated identifiers of the standard
\* types, None for the vendor types and for every Request and Response
fixed_port_id(model) ==
    IF model.kind \in {"Request", "Response"} THEN NoneVal
    ELSE IF model.name_components = <<"uavcan", "node", "Heartbeat">> THEN IntVal(32085)
    ELSE IF model.name_components = <<"uavcan", "node", "GetInfo">> THEN IntVal(430)
    ELSE IF model.name_components = <<"uavcan", "register", "Access">> THEN IntVal(384)
    ELSE NoneVal

\* the _FIXED_PORT_ID_ the generator gives a class: the identifier of its model,
\* None when the type has none
FIXED_PORT_ID(cls) == fixed_port_id(cls.model)

\* int(x): TypeError for None
int(x) == IF x.tag = "int" THEN [outcome |-> "ok", value |-> x]
          ELSE [outcome |-> "TypeError", value |-> NoneVal]

\* get_fixed_port_id with zero standing for the absent identifier
get_fixed_port_id_defaulting_to_zero(cls) ==
    LET out == int(FIXED_PORT_ID(cls))
    IN  IF out.outcome = "TypeError" THEN [outcome |-> "ok", value |-> IntVal(0)]
        ELSE IF out.value # fixed_port_id(get_model(cls))
             THEN [outcome |-> "AssertionError", value |-> NoneVal]
        ELSE [outcome |-> "ok", value |-> out.value]

\* get_fixed_port_id(class_or_instance); every generated class is a
\* CompositeObject, so the assertion against the model is always evaluated
get_fixed_port_id(cls) ==
    LET out == int(FIXED_PORT_ID(cls))
    IN  IF out.outcome = "TypeError" THEN [outcome |-> "ok", value |-> NoneVal]
        ELSE IF out.value # fixed_port_id(get_model(cls))
             THEN [outcome |-> "AssertionError", value |-> NoneVal]
        ELSE [outcome |-> "ok", value |-> out.value]

InitClasses ==
    /\ buf = <<>>
    /\ bit_offset = 0
    /\ aliased = FALSE
    /\ last = [op |-> "none", dtype |-> "", arg |-> 0, before |-> 0,
               outcome |-> "ok", value |-> NoneVal]
    /\ top = [fn |-> "none", model |-> NoModel, cls |-> NoClass, instance |-> FALSE,
               outcome |-> "ok", value |-> NoneVal]
    /\ installed \in SUBSET TopLevelTypes
    /\ obj = NoObject
    /\ held = NoArray

\* get_class(model) for any model of the DSDL namespaces
GetClass ==
    \E model \in AllModels :
        \E r \in {get_class(installed, model)} :
            /\ top' = [fn |-> "get_class", model |-> model, cls |-> r.cls, instance |-> FALSE,
                       outcome |-> r.outcome, value |-> NoneVal]
            /\ UNCHANGED <<buf, bit_offset, aliased, last, installed, obj, held>>

\* get_model(class_or_instance) for any generated class or an instance of it
GetModel ==
    \E cls \in Classes(installed), instance \in BOOLEAN :
        /\ top' = [fn |-> "get_model", model |-> get_model(cls), cls |-> cls,
                   instance |-> instance, outcome |-> "ok", value |-> NoneVal]
        /\ UNCHANGED <<buf, bit_offset, aliased, last, installed, obj, held>>

\* get_fixed_port_id(class_or_instance) for any generated class or an instance of it
GetFixedPortId ==
    \E cls \in Classes(installed), instance \in BOOLEAN :
        \E r \in {get_fixed_port_id(cls)} :
            /\ top' = [fn |-> "get_fixed_port_id", model |-> get_model(cls), cls |-> cls,
                       instance |-> instance, outcome |-> r.outcome, value |-> r.value]
            /\ UNCHANGED <<buf, bit_offset, aliased, last, installed, obj, held>>

NextClasses ==
    \/ GetClass
    \/ GetModel
    \/ GetFixedPortId

SpecClasses == InitClasses /\ [][NextClasses]_vars

\* a model is valid when its type, or the service it belongs to, is installed
ValidModel(model) ==
    \/ model \in installed
    \/ parent_service(model) \in installed

\* C10: get_class and get_model are inverses of each other: the class found for
\* a valid model has that model, and the class found for the model of a
\* generated class is that class; a Request or Response is found in its service.
C10_ClassAndModelAreInverse ==
    /\ (top.fn = "get_class" /\ ValidModel(top.model))
            => /\ top.outcome = "ok"
               /\ get_model(top.cls) = top.model
               /\ top.cls \in Classes(installed)
               /\ parent_service(top.model) # NoModel =>
                    /\ top.cls.nested = short_name(top.model)
                    /\ top.cls.name = get_class(installed, parent_service(top.model)).cls.name
    /\ top.fn = "get_model"
            => /\ get_class(installed, top.model).outcome = "ok"
               /\ get_class(installed, top.model).cls = top.cls

\* the Response of a service found while a second service and a second version
\* of another type are installed
C10_Witness ==
    /\ top.fn = "get_class"
    /\ top.model.kind = "Response"
    /\ top.outcome = "ok"
    /\ top.cls.nested = "Response"
    /\ Cardinality(installed) >= 4

\* C11: get_fixed_port_id agrees with the fixed_port_id of the model whenever
\* the class or the model has one: it returns that integer, it returns None only
\* when neither has one, and it never returns anything else.
C11_FixedPortIdMatchesModel ==
    top.fn = "get_fixed_port_id" =>
        /\ top.outcome = "ok"
        /\ (FIXED_PORT_ID(top.cls) # NoneVal \/ fixed_port_id(get_model(top.cls)) # NoneVal)
                => /\ top.value.tag = "int"
                   /\ top.value = fixed_port_id(get_model(top.cls))
        /\ top.value = NoneVal
                => /\ FIXED_PORT_ID(top.cls) = NoneVal
                   /\ fixed_port_id(get_model(top.cls)) = NoneVal
        /\ top.value \in {NoneVal, fixed_port_id(get_model(top.cls))}

\* the identifier of an instance of a fixed-port service, and the absent
\* identifier of a vendor type
C11_Witness ==
    /\ top.fn = "get_fixed_port_id"
    /\ top.instance
    /\ top.cls.model.kind = "Service"
    /\ top.value = IntVal(384)
    /\ \E t \in installed : fixed_port_id(t) = NoneVal

\* the module paths that spell the namespaces ns with or without a trailing
\* underscore, component by component
Spellings(ns) ==
    { [i \in 1..Len(ns) |-> IF f[i] THEN ns[i] \o "_" ELSE ns[i]] :
        f \in [1..Len(ns) -> BOOLEAN] }

\* the spellings every prefix of which can be imported, and which use the
\* underscore only where the plain name cannot be imported
Resolutions(inst, ns) ==
    { p \in Spellings(ns) :
        \A i \in 1..Len(ns) :
            /\ SubSeq(p, 1, i) \in Modules(inst)
            /\ p[i] # ns[i] => Append(SubSeq(p, 1, i - 1), ns[i]) \notin Modules(inst) }

ProgrammerFaults == {"ImportError", "AttributeError", "AssertionError"}

\* C22: get_class resolves a top-level descriptor by importing its namespaces in
\* order, each under its plain name, and under the name with an underscore only
\* when the plain one cannot be imported, and then looks short_name_major_minor
\* up in the last namespace: ImportError exactly when some namespace can be
\* imported under neither name, AttributeError exactly when the namespaces are
\* found and the last one lacks the type; a descriptor that cannot be resolved
\* ends in a programmer fault, never in a FormatError or in no class.
C22_ResolvesByNamespaces ==
    top.fn = "get_class" =>
        /\ top.outcome \in {"ok"} \cup ProgrammerFaults
        /\ top.outcome = "ok" <=> ValidModel(top.model)
        /\ top.outcome = "ok" => top.cls # NoClass
        /\ parent_service(top.model) = NoModel =>
                LET found == Resolutions(installed, Namespace(top.model))
                    ref == Ref(top.model)
                IN  /\ Cardinality(found) <= 1
                    /\ top.outcome = "ImportError" <=> found = {}
                    /\ top.outcome = "AttributeError"
                            <=> (found # {} /\ \A p \in found : ~HasAttr(installed, p, ref, ""))
                    /\ top.outcome = "ok"
                            => /\ top.cls.module \in found
                               /\ top.cls.name = ref
                               /\ top.cls.nested = ""
                               /\ top.cls \in Classes(installed)

\* a type found in the namespace of the plain name while a namespace of that
\* name with an underscore is installed next to it
C22_Witness ==
    /\ top.fn = "get_class"
    /\ top.model = Model(<<"uavcan", "node", "GetInfo">>, 1, 0, "Service")
    /\ <<"uavcan", "node">> \in Modules(installed)
    /\ <<"uavcan", "node_">> \in Modules(installed)
    /\ top.outcome = "ok"
    /\ top.cls.module = <<"uavcan", "node">>

(***************************************************************************)
(* Properties of the Deserializer: the values read.                        *)
(***************************************************************************)
\* Two byte values that between them set and clear every bit position, so that
\* every bit of a value read, and every bit next to it, is seen as 0 and as 1.
SampleBytes == {90, 165}
MaxValueBytes == 2      \* longest buffer whose content varies
RECURSIVE BuffersOfLength(_)
BuffersOfLength(n) ==
    IF n = 0 THEN {<<>>}
    ELSE { Append(b, x) : b \in BuffersOfLength(n - 1), x \in SampleBytes }
ValueBuffers == UNION { BuffersOfLength(n) : n \in 0..MaxValueBytes }

\* Deserializer.new(source_bytes) over buffers of every content
InitValues ==
    /\ buf \in ValueBuffers
    /\ bit_offset = 0
    /\ aliased = TRUE
    /\ last = [op |-> "new", dtype |-> "", arg |-> 0, before |-> 0,
               outcome |-> "ok", value |-> NoneVal]
    /\ top = NoTop
    /\ installed = {}
    /\ obj = NoObject
    /\ held = NoArray

SpecValues == InitValues /\ [][Next]_vars

\* ceil(L / 8)
Ceil8(L) == (L + 7) \div 8

\* the sum of byte[i] * 256^i over the k bytes of b that follow the first `first`
RECURSIVE LittleEndian(_, _, _)
LittleEndian(b, first, k) ==
    IF k = 0 THEN 0
    ELSE b[first + 1] + 256 * LittleEndian(b, first + 1, k - 1)

\* the value of L bits laid out from byte `first`: all but the last byte whole,
\* the last byte giving its high L mod 8 bits (all eight when L mod 8 = 0)
AlignedValue(b, first, L) ==
    LittleEndian(b, first, Ceil8(L) - 1)
        + (b[first + Ceil8(L)] \div Pow2((8 - (L % 8)) % 8)) * Pow2(8 * (Ceil8(L) - 1))

\* the last call was an aligned read of L >= 1 bits with at least L bits remaining
AlignedReadOf(op) ==
    /\ last.op = op
    /\ last.arg >= 1
    /\ last.before >= 0
    /\ last.before % 8 = 0
    /\ RemainingBefore >= last.arg

\* C14: consumed_bit_length + remaining_bit_length is eight times the length of
\* the buffer in the initial state, where the cursor is 0, and after every
\* operation, whether it returned or raised.
C14_ConsumedPlusRemaining ==
    /\ consumed_bit_length(buf, bit_offset) + remaining_bit_length(buf, bit_offset)
            = 8 * Len(buf)
    /\ last.op = "new" => /\ consumed_bit_length(buf, bit_offset) = 0
                          /\ remaining_bit_length(buf, bit_offset) = 8 * Len(buf)

\* a read that raised with the cursor at an odd bit of a buffer of several bytes
C14_Witness ==
    /\ last.op \in ConsumingOps
    /\ last.outcome = "IndexError"
    /\ Len(buf) >= 2
    /\ bit_offset % 8 # 0
    /\ bit_offset # last.before

\* C15: at a byte-aligned cursor with at least L >= 1 bits remaining,
\* fetch_aligned_unsigned(L) returns the whole bytes little-endian plus the high
\* L mod 8 bits of the last byte above them, a value in [0, 2^L).
C15_AlignedUnsignedValue ==
    AlignedReadOf("fetch_aligned_unsigned") =>
        /\ last.outcome = "ok"
        /\ last.value = IntVal(AlignedValue(buf, last.before \div 8, last.arg))
        /\ 0 <= last.value.n
        /\ last.value.n < Pow2(last.arg)

\* a read of more than one byte that ends inside a byte
C15_Witness ==
    /\ AlignedReadOf("fetch_aligned_unsigned")
    /\ last.arg > 8
    /\ last.arg % 8 # 0
    /\ last.value.n >= 256
    /\ buf[Ceil8(last.arg)] % 2 = 1

\* the last call read k bits, k mod 8 # 0, from an aligned cursor and returned
PartialAlignedRead ==
    /\ AlignedReadOf("fetch_aligned_unsigned")
    /\ last.arg % 8 # 0
    /\ last.outcome = "ok"
\* the final byte of that read, its index in buf, and the number of its bits
\* that do not belong to the value
FinalIndex == last.before \div 8 + Ceil8(last.arg)
FinalByte == buf[FinalIndex]
PaddingBits == 8 - (last.arg % 8)
\* the same read over the buffer with another final byte
ReadWithFinalByte(x) ==
    fetch_aligned_unsigned([buf EXCEPT ![FinalIndex] = x], last.before, last.arg)
\* the part of the value above its whole bytes
HighBitsOfValue == last.value.n \div Pow2(8 * (Ceil8(last.arg) - 1))

\* C16 as stated, with bits counted by significance: the high bits of the value
\* are the low k mod 8 bits of the final byte, and the high 8 - k mod 8 bits of
\* that byte do not influence the value.
C16_HighBitsArePadding ==
    PartialAlignedRead =>
        /\ HighBitsOfValue = FinalByte % Pow2(last.arg % 8)
        /\ \A pad \in 0..(Pow2(PaddingBits) - 1) :
              ReadWithFinalByte((FinalByte % Pow2(last.arg % 8)) + pad * Pow2(last.arg % 8)).value
                  = last.value

\* C16: for a k-bit unsigned value at a byte-aligned cursor with k mod 8 # 0,
\* fetch_aligned_unsigned(k) takes the high bits of the value from the k mod 8
\* most significant bits of the final byte (the first k mod 8 bits in stream
\* order), and the 8 - k mod 8 least significant bits of that byte are padding
\* that does not influence the value.
C16_LowBitsArePadding ==
    PartialAlignedRead =>
        /\ HighBitsOfValue = FinalByte \div Pow2(PaddingBits)
        /\ \A pad \in 0..(Pow2(PaddingBits) - 1) :
              ReadWithFinalByte((FinalByte \div Pow2(PaddingBits)) * Pow2(PaddingBits) + pad).value
                  = last.value

\* a value whose final byte has bits set both in the part read and in the padding
C16_Witness ==
    /\ PartialAlignedRead
    /\ last.before > 0
    /\ HighBitsOfValue # 0
    /\ FinalByte % Pow2(PaddingBits) # 0
    /\ FinalByte % Pow2(last.arg % 8) # FinalByte \div Pow2(PaddingBits)

\* the bit of the stream under cursor c, and the L bits from c on
StreamBit(b, c) == (b[(c \div 8) + 1] \div Pow2(7 - (c % 8))) % 2
StreamBits(b, c, L) == [i \in 1..L |-> StreamBit(b, c + i - 1)]

\* a run of at most eight bits as a number, the first bit the most significant
RECURSIVE MsbFirst(_)
MsbFirst(bits) ==
    IF bits = <<>> THEN 0
    ELSE 2 * MsbFirst(SubSeq(bits, 1, Len(bits) - 1)) + bits[Len(bits)]

\* the unsigned value of a run of bits: eight bits to a byte, bytes little-endian,
\* the bits left over above them
RECURSIVE ValueOfBits(_)
ValueOfBits(bits) ==
    IF Len(bits) <= 8 THEN MsbFirst(bits)
    ELSE MsbFirst(SubSeq(bits, 1, 8)) + 256 * ValueOfBits(SubSeq(bits, 9, Len(bits)))

\* the two's-complement reading of an unsigned value of L bits
TwosComplement(u, L) == IF u >= Pow2(L - 1) THEN u - Pow2(L) ELSE u

\* the last call demanded bits that the input has
CoveredRead ==
    /\ last.op \in ConsumingOps
    /\ last.arg >= 0
    /\ last.before >= 0
    /\ last.before + DemandedBits <= 8 * Len(buf)

\* the result of the last call, had the input one more byte, all ones
WithTrailingByte ==
    LET longer == Append(buf, 255)
    IN  CASE last.op = "fetch_unaligned_unsigned"
                -> fetch_unaligned_unsigned(longer, last.before, last.arg)
          [] last.op = "fetch_unaligned_signed"
                -> fetch_unaligned_signed(longer, last.before, last.arg)
          [] last.op = "fetch_unaligned_array_of_bits"
                -> fetch_unaligned_array_of_bits(longer, last.before, last.arg)

\* C17: a read whose bits are within the input never raises IndexError, and
\* what fetch_unaligned_unsigned, fetch_unaligned_signed and
\* fetch_unaligned_array_of_bits return is a function of the buffer bits
\* cursor .. cursor + L - 1 alone: the zero that stands for an absent trailing
\* byte is in none of the L bits returned.
C17_CoveredReadsSeeOnlyTheirBits ==
    CoveredRead =>
        /\ last.outcome # "IndexError"
        /\ (last.op = "fetch_unaligned_unsigned" /\ last.arg >= 1)
                => /\ last.outcome = "ok"
                   /\ last.value = IntVal(ValueOfBits(StreamBits(buf, last.before, last.arg)))
                   /\ last.value = WithTrailingByte.value
        /\ (last.op = "fetch_unaligned_signed" /\ last.arg >= 2)
                => /\ last.outcome = "ok"
                   /\ last.value = IntVal(TwosComplement(
                            ValueOfBits(StreamBits(buf, last.before, last.arg)), last.arg))
                   /\ last.value = WithTrailingByte.value
        /\ last.op = "fetch_unaligned_array_of_bits"
                => /\ last.outcome = "ok"
                   /\ last.value = BitsVal(StreamBits(buf, last.before, last.arg))
                   /\ last.value = WithTrailingByte.value

\* the last bits of the input read from an unaligned cursor into two bytes, the
\* second of them completed with zeros
C17_Witness ==
    /\ CoveredRead
    /\ last.op = "fetch_unaligned_unsigned"
    /\ last.before % 8 # 0
    /\ last.arg > 8
    /\ last.before + last.arg = 8 * Len(buf)
    /\ last.value.n >= 256

\* n successive calls of fetch_unaligned_bit from cursor off: the cursor they
\* leave, the outcome of the last one made, the bits returned so far
RECURSIVE BitByBit(_, _, _, _)
BitByBit(b, off, n, bits) ==
    IF n <= 0 THEN [off |-> off, outcome |-> "ok", value |-> BitsVal(bits)]
    ELSE LET r == fetch_unaligned_bit(b, off)
         IN  IF r.outcome # "ok" THEN [off |-> r.off, outcome |-> r.outcome, value |-> BitsVal(bits)]
             ELSE BitByBit(b, r.off, n - 1, Append(bits, r.value.n))

\* what the last call left behind
LastResult == [off |-> bit_offset, outcome |-> last.outcome, value |-> last.value]

\* C18: the unaligned reads see one MSB-first bit stream.  With enough bits
\* remaining, fetch_unaligned_bit returns bit 7 - c mod 8 of byte c div 8; n calls
\* of it return the bits and leave the cursor of one fetch_unaligned_array_of_bits(n),
\* and of fetch_aligned_array_of_bits(n) at an aligned cursor; byte i of
\* fetch_unaligned_bytes(m) is the stream bits c + 8i .. c + 8i + 7, the first
\* the most significant.
C18_OneBitStream ==
    CoveredRead =>
        /\ last.op = "fetch_unaligned_bit"
                => /\ last.outcome = "ok"
                   /\ last.value = BoolVal((buf[(last.before \div 8) + 1]
                                            \div Pow2(7 - (last.before % 8))) % 2)
                   /\ bit_offset = last.before + 1
        /\ last.op = "fetch_unaligned_array_of_bits"
                => /\ LastResult = BitByBit(buf, last.before, last.arg, <<>>)
                   /\ last.outcome = "ok"
                   /\ bit_offset = last.before + last.arg
        /\ (last.op = "fetch_aligned_array_of_bits" /\ last.before % 8 = 0)
                => /\ LastResult = BitByBit(buf, last.before, last.arg, <<>>)
                   /\ LastResult = fetch_unaligned_array_of_bits(buf, last.before, last.arg)
                   /\ last.outcome = "ok"
        /\ last.op = "fetch_unaligned_bytes"
                => /\ last.outcome = "ok"
                   /\ bit_offset = last.before + 8 * last.arg
                   /\ Len(last.value.seq) = last.arg
                   /\ \A i \in 0..(last.arg - 1) :
                         last.value.seq[i + 1]
                             = MsbFirst(StreamBits(buf, last.before + 8 * i, 8))

\* bits of both values read across a byte boundary from an unaligned cursor
C18_Witness ==
    /\ CoveredRead
    /\ last.op = "fetch_unaligned_array_of_bits"
    /\ last.before % 8 # 0
    /\ last.arg > 8
    /\ last.before > 8
    /\ \E i, j \in 1..last.arg : last.value.seq[i] = 0 /\ last.value.seq[j] = 1

\* s is the two's-complement reading of the L bits of u: in [-2^(L-1), 2^(L-1))
\* and congruent to u modulo 2^L; for the wide values, the same limbs with 2^L
\* subtracted exactly when bit L - 1 is set
IsTwosComplementOf(s, u, L) ==
    IF u.tag = "int"
    THEN /\ s.tag = "int"
         /\ 0 - Pow2(L - 1) <= s.n
         /\ s.n < Pow2(L - 1)
         /\ (s.n - u.n) % Pow2(L) = 0
    ELSE /\ s.tag = "wide"
         /\ s.seq = u.seq
         /\ s.n \in {0, 1}
         /\ s.n = 1 <=> u.seq[Len(u.seq)] \div Pow2((L - 1) % 16) >= 1

\* the widths of the fixed-width signed reads
SignedWidth ==
    [fetch_aligned_i8 |-> 8, fetch_aligned_i16 |-> 16,
     fetch_aligned_i32 |-> 32, fetch_aligned_i64 |-> 64]

\* the unsigned read of the same bits from the same cursor
UnsignedOfLast ==
    IF last.op = "fetch_aligned_signed"
    THEN fetch_aligned_unsigned(buf, last.before, last.arg)
    ELSE fetch_unaligned_unsigned(buf, last.before, last.arg)

\* C19: for L >= 2, fetch_aligned_signed(L) and fetch_unaligned_signed(L) return
\* the two's-complement reading of what the unsigned read of L bits returns from
\* the same cursor, and leave the cursor where it does; fetch_aligned_i8 / i16 /
\* i32 / i64 return the value and leave the cursor of fetch_aligned_signed(8 / 16
\* / 32 / 64).
C19_SignedIsTwosComplement ==
    /\ (last.op \in {"fetch_aligned_signed", "fetch_unaligned_signed"} /\ last.arg >= 2)
            => /\ last.outcome = UnsignedOfLast.outcome
               /\ bit_offset = UnsignedOfLast.off
               /\ last.outcome = "ok"
                    => IsTwosComplementOf(last.value, UnsignedOfLast.value, last.arg)
    /\ last.op \in DOMAIN SignedWidth
            => LET generic == fetch_aligned_signed(buf, last.before, SignedWidth[last.op])
                   u == fetch_aligned_unsigned(buf, last.before, SignedWidth[last.op])
               IN  /\ last.outcome = generic.outcome
                   /\ last.outcome = "ok"
                        => /\ LastResult = generic
                           /\ IsTwosComplementOf(last.value, u.value, SignedWidth[last.op])

\* a negative 32-bit value read after other reads
C19_Witness ==
    /\ last.op = "fetch_aligned_i32"
    /\ last.outcome = "ok"
    /\ last.before > 0
    /\ last.value.n = 1

\* the widths of the fixed-width unsigned reads
UnsignedWidth ==
    [fetch_aligned_u8 |-> 8, fetch_aligned_u16 |-> 16,
     fetch_aligned_u32 |-> 32, fetch_aligned_u64 |-> 64]

\* the sum of byte[i] * 256^i over the k bytes that follow the first `first`, as
\* the value a read returns: a number up to two bytes, 16-bit limbs beyond
LittleEndianValue(b, first, k) ==
    IF k <= 2 THEN IntVal(LittleEndian(b, first, k))
    ELSE WideVal([j \in 1..(k \div 2) |-> LittleEndian(b, first + 2 * (j - 1), 2)], 0)

\* C20: at a byte-aligned cursor with W bits remaining, fetch_aligned_u8 / u16 /
\* u32 / u64 return the sum of byte[i] * 256^i over their 1 / 2 / 4 / 8 bytes,
\* the value and the final cursor of fetch_aligned_unsigned(W) and of
\* fetch_unaligned_unsigned(W).
C20_FixedWidthIsLittleEndian ==
    (/\ last.op \in DOMAIN UnsignedWidth
     /\ last.before >= 0
     /\ last.before % 8 = 0
     /\ RemainingBefore >= UnsignedWidth[last.op])
        => LET W == UnsignedWidth[last.op]
           IN  /\ last.outcome = "ok"
               /\ last.value = LittleEndianValue(buf, last.before \div 8, W \div 8)
               /\ bit_offset = last.before + W
               /\ LastResult = fetch_aligned_unsigned(buf, last.before, W)
               /\ LastResult = fetch_unaligned_unsigned(buf, last.before, W)

\* eight bytes read as one value
C20_Witness ==
    /\ last.op = "fetch_aligned_u64"
    /\ last.outcome = "ok"
    /\ Len(last.value.seq) = 4
    /\ bit_offset = 64

(***************************************************************************)
(* Arrays and their memory.                                                *)
(*                                                                         *)
(* A basic slice of _buf and numpy.frombuffer over an array are views: they *)
(* show the memory they were made from.  numpy.empty, numpy.zeros,          *)
(* numpy.unpackbits and astype make arrays of their own.                    *)
(***************************************************************************)
MaxArrayBytes == 4      \* longest buffer arrays are fetched from
MaxWrites == 1          \* changes the caller makes to the input

\* numpy.uint8 and numpy.uint16, by itemsize
ItemSizes == {1, 2}
ArrayVal(itemsize, s) == [tag |-> "array", n |-> itemsize, seq |-> s]

\* the elements numpy.frombuffer(bs, dtype, count) shows on a little-endian host
Elements(bs, itemsize, count) ==
    [i \in 1..count |-> SumBytes(SubSeq(bs, (i - 1) * itemsize + 1, i * itemsize), itemsize)]

\* _LittleEndianDeserializer.fetch_aligned_array_of_standard_bit_length_primitives,
\* count >= 1; numpy.frombuffer raises ValueError for a buffer too small
fetch_aligned_array_of_standard_bit_length_primitives(b, off, itemsize, count) ==
    IF off % 8 # 0 THEN Raise(off, "AssertionError")
    ELSE IF byte_offset(off) < 0 \/ byte_offset(off) + itemsize * count > Len(b)
         THEN Raise(off, "ValueError")
    ELSE Ok(off + itemsize * count * 8,
            ArrayVal(itemsize,
                     Elements(SubSeq(b, byte_offset(off) + 1, byte_offset(off) + itemsize * count),
                              itemsize, count)))

\* _LittleEndianDeserializer.fetch_unaligned_array_of_standard_bit_length_primitives,
\* count >= 1
fetch_unaligned_array_of_standard_bit_length_primitives(b, off, itemsize, count) ==
    LET bs == fetch_unaligned_bytes(b, off, itemsize * count)
    IN  IF bs.outcome # "ok" THEN bs
        ELSE IF Len(bs.value.seq) < count THEN Raise(bs.off, "AssertionError")
        ELSE Ok(bs.off, ArrayVal(itemsize, Elements(bs.value.seq, itemsize, count)))

\* out = self._buf[self._byte_offset:self._byte_offset + count]
fetch_aligned_bytes_memory(off, count) == View(byte_offset(off))

\* numpy.unpackbits(bs)[:count] ... astype(dtype=numpy.bool)
fetch_aligned_array_of_bits_memory(off, count) == Fresh
fetch_unaligned_array_of_bits_memory(off, count) == Fresh

\* fetch_unaligned_bytes filling a slice of the buffer instead of numpy.empty(count)
fetch_unaligned_bytes_memory_in_place(off, count) ==
    IF count > 0 THEN View(byte_offset(off)) ELSE Fresh

\* numpy.empty(count) at an unaligned cursor, fetch_aligned_bytes(count) at an
\* aligned one, numpy.zeros(0) for count <= 0
fetch_unaligned_bytes_memory(off, count) ==
    IF count > 0
    THEN IF off % 8 # 0 THEN Fresh ELSE fetch_aligned_bytes_memory(off, count)
    ELSE Fresh

\* numpy.frombuffer(self._buf, ..., offset=self._byte_offset)
fetch_aligned_array_of_standard_bit_length_primitives_memory(off, itemsize, count) ==
    View(byte_offset(off))
\* numpy.frombuffer(bs, ...) over what fetch_unaligned_bytes returned
fetch_unaligned_array_of_standard_bit_length_primitives_memory(off, itemsize, count) ==
    fetch_unaligned_bytes_memory(off, itemsize * count)

ArrayBuffers == { SubSeq(SampleAligned, 1, n) : n \in 0..MaxArrayBytes }

InitArrays ==
    /\ buf \in ArrayBuffers
    /\ bit_offset = 0
    /\ aliased = TRUE
    /\ last = [op |-> "new", dtype |-> "", arg |-> 0, before |-> 0,
               outcome |-> "ok", value |-> NoneVal]
    /\ top = NoTop
    /\ installed = {}
    /\ obj = NoObject
    /\ held = NoArray

\* a fetch whose array the caller keeps
Hold(op, arg, itemsize, result, memory) ==
    /\ bit_offset >= 0 - MaxUnderrun
    /\ \E r \in {result} :
        /\ bit_offset' = r.off
        /\ last' = [op |-> op, dtype |-> "", arg |-> arg, before |-> bit_offset,
                    outcome |-> r.outcome, value |-> r.value]
        /\ held' = IF r.outcome = "ok"
                   THEN [op |-> op, before |-> bit_offset, memory |-> memory,
                         itemsize |-> itemsize, count |-> Len(r.value.seq),
                         data |-> r.value.seq, changes |-> held.changes]
                   ELSE [NoArray EXCEPT !.changes = held.changes]
    /\ UNCHANGED <<buf, aliased, top, installed, obj>>

HoldAlignedBytes ==
    \E n \in Counts : Hold("fetch_aligned_bytes", n, 1, fetch_aligned_bytes(buf, bit_offset, n),
                            fetch_aligned_bytes_memory(bit_offset, n))
HoldUnalignedBytes ==
    \E n \in Counts : Hold("fetch_unaligned_bytes", n, 1, fetch_unaligned_bytes(buf, bit_offset, n),
                            fetch_unaligned_bytes_memory(bit_offset, n))
HoldAlignedArrayOfBits ==
    \E n \in Args : Hold("fetch_aligned_array_of_bits", n, 0,
                          fetch_aligned_array_of_bits(buf, bit_offset, n),
                          fetch_aligned_array_of_bits_memory(bit_offset, n))
HoldUnalignedArrayOfBits ==
    \E n \in Args : Hold("fetch_unaligned_array_of_bits", n, 0,
                          fetch_unaligned_array_of_bits(buf, bit_offset, n),
                          fetch_unaligned_array_of_bits_memory(bit_offset, n))
HoldAlignedPrimitives ==
    \E itemsize \in ItemSizes, n \in 1..MaxCount :
        Hold("fetch_aligned_array_of_standard_bit_length_primitives", n, itemsize,
             fetch_aligned_array_of_standard_bit_length_primitives(buf, bit_offset, itemsize, n),
             fetch_aligned_array_of_standard_bit_length_primitives_memory(bit_offset, itemsize, n))
HoldUnalignedPrimitives ==
    \E itemsize \in ItemSizes, n \in 1..MaxCount :
        Hold("fetch_unaligned_array_of_standard_bit_length_primitives", n, itemsize,
             fetch_unaligned_array_of_standard_bit_length_primitives(buf, bit_offset, itemsize, n),
             fetch_unaligned_array_of_standard_bit_length_primitives_memory(bit_offset, itemsize, n))

\* the caller, who owns the input, changes one byte of it
WriteInput ==
    /\ held.changes < MaxWrites
    /\ \E i \in 1..Len(buf) : buf' = [buf EXCEPT ![i] = 255 - @]
    /\ held' = [held EXCEPT !.changes = @ + 1]
    /\ UNCHANGED <<bit_offset, aliased, last, top, installed, obj>>

NextArrays ==
    \/ HoldAlignedBytes
    \/ HoldUnalignedBytes
    \/ HoldAlignedArrayOfBits
    \/ HoldUnalignedArrayOfBits
    \/ HoldAlignedPrimitives
    \/ HoldUnalignedPrimitives
    \/ WriteInput

SpecArrays == InitArrays /\ [][NextArrays]_vars

\* what the held array shows now: a view shows the input as it is, an array of
\* its own shows what it was given
Observed ==
    IF held.memory.owner = "input"
    THEN Elements(SubSeq(buf, held.memory.start + 1,
                         held.memory.start + held.itemsize * held.count),
                  held.itemsize, held.count)
    ELSE held.data

BitArrayOps == {"fetch_aligned_array_of_bits", "fetch_unaligned_array_of_bits"}
UnalignedArrayOps == {"fetch_unaligned_bytes",
                      "fetch_unaligned_array_of_standard_bit_length_primitives"}

\* C21 as stated: what fetch_unaligned_bytes, the unaligned array of primitives
\* and both arrays of bits return is a copy at every cursor, aligned or not, and
\* shows what was returned whatever happens to the input.
C21_CopiesAtEveryCursor ==
    held.op \in BitArrayOps \cup UnalignedArrayOps =>
        /\ held.memory = Fresh
        /\ Observed = held.data

\* the arrays of bits are copies at every cursor; fetch_unaligned_bytes and the
\* unaligned array of primitives are copies at an unaligned cursor (and for a
\* count that is not positive) and views of the input from the cursor's byte on
\* at an aligned one
CopiesUnlessAligned ==
    /\ held.op \in BitArrayOps
            => /\ held.memory = Fresh
               /\ Observed = held.data
    /\ (held.op \in UnalignedArrayOps /\ (held.before % 8 # 0 \/ held.count = 0))
            => /\ held.memory = Fresh
               /\ Observed = held.data
    /\ (held.op \in UnalignedArrayOps /\ held.before % 8 = 0 /\ held.count > 0)
            => held.memory = View(held.before \div 8)

\* the input changes only in a step of the caller's, never in an operation
OnlyTheCallerWrites ==
    [][buf' # buf => /\ last' = last
                     /\ bit_offset' = bit_offset
                     /\ held'.changes = held.changes + 1]_vars

\* C21: only the aligned paths alias the input.  The arrays returned by
\* fetch_unaligned_array_of_bits and fetch_aligned_array_of_bits are copies at
\* every cursor, those returned by fetch_unaligned_bytes and
\* fetch_unaligned_array_of_standard_bit_length_primitives are copies at every
\* unaligned cursor, where a later change of the input changes nothing they
\* show, and views of the input at an aligned cursor, where these two take the
\* aligned path; no Deserializer operation writes to the input.
C21_OnlyAlignedPathsAlias == []CopiesUnlessAligned /\ OnlyTheCallerWrites

\* bytes fetched from an unaligned cursor and kept while the caller changes one
\* of the input bytes they were made from
C21_Witness ==
    /\ held.op = "fetch_unaligned_bytes"
    /\ held.before % 8 # 0
    /\ held.count >= 2
    /\ held.changes = 1
    /\ last.op = "fetch_unaligned_bytes"
    /\ fetch_unaligned_bytes(buf, held.before, held.count).value.seq # held.data

(***************************************************************************)
(* Attributes: get_attribute, set_attribute.                               *)
(*                                                                         *)
(* An object is the function from the names getattr finds on it to their   *)
(* values.  The generator stores a DSDL field under its own name, and      *)
(* under the name followed by an underscore when Python reserves it.       *)
(***************************************************************************)
MaxValue == 1       \* attribute values range over 0..MaxValue

AttrValues == { IntVal(v) : v \in 0..MaxValue }

\* the DSDL field names of the generated classes that have instances here: plain
\* names, reserved names, and a name next to the same name with an underscore
FieldSets == { {"uptime", "mode"}, {"value", "def"}, {"type", "if"}, {"mode", "mode_"}, {} }

\* the names a caller may ask for
DsdlNames == {"uptime", "mode", "mode_", "value", "def", "def_", "type", "if", "missing"}

\* the instances of a class with the given DSDL fields
ObjectsOf(fields) == [ { PyName(f) : f \in fields } -> AttrValues ]
Objects == UNION { ObjectsOf(fields) : fields \in FieldSets }

hasattr(o, name) == name \in DOMAIN o

\* getattr(obj, name): the value, or AttributeError
getattr(o, name) ==
    IF hasattr(o, name) THEN [outcome |-> "ok", value |-> o[name]]
    ELSE [outcome |-> "AttributeError", value |-> NoneVal]

\* setattr(obj, name, value): the attribute is created when it does not exist
setattr(o, name, value) ==
    [a \in DOMAIN o \cup {name} |-> IF a = name THEN value ELSE o[a]]

\* get_attribute(obj, name)
get_attribute(o, name) ==
    IF getattr(o, name).outcome = "AttributeError" THEN getattr(o, name \o "_")
    ELSE getattr(o, name)

\* set_attribute asking for the suffixed name first
set_attribute_suffixed_first(o, name, value) ==
    LET suffixed == name \o "_"
    IN  IF hasattr(o, suffixed) THEN [obj |-> setattr(o, suffixed, value), outcome |-> "ok"]
        ELSE IF hasattr(o, name) THEN [obj |-> setattr(o, name, value), outcome |-> "ok"]
        ELSE [obj |-> o, outcome |-> "AttributeError"]

\* set_attribute calling setattr() without asking first
set_attribute_without_asking(o, name, value) ==
    [obj |-> setattr(o, name, value), outcome |-> "ok"]

\* set_attribute(obj, name, value)
set_attribute(o, name, value) ==
    LET suffixed == name \o "_"
    IN  IF hasattr(o, name) THEN [obj |-> setattr(o, name, value), outcome |-> "ok"]
        ELSE IF hasattr(o, suffixed) THEN [obj |-> setattr(o, suffixed, value), outcome |-> "ok"]
        ELSE [obj |-> o, outcome |-> "AttributeError"]

NoAttrCall == [fn |-> "none", name |-> "", arg |-> NoneVal, before |-> NoObject,
               outcome |-> "ok", value |-> NoneVal]

InitAttributes ==
    /\ buf = <<>>
    /\ bit_offset = 0
    /\ aliased = FALSE
    /\ last = [op |-> "none", dtype |-> "", arg |-> 0, before |-> 0,
               outcome |-> "ok", value |-> NoneVal]
    /\ top = NoAttrCall
    /\ installed = {}
    /\ obj \in Objects
    /\ held = NoArray

GetAttribute ==
    \E name \in DsdlNames :
        \E r \in {get_attribute(obj, name)} :
            /\ top' = [fn |-> "get_attribute", name |-> name, arg |-> NoneVal, before |-> obj,
                       outcome |-> r.outcome, value |-> r.value]
            /\ UNCHANGED <<buf, bit_offset, aliased, last, installed, obj, held>>

SetAttribute ==
    \E name \in DsdlNames, value \in AttrValues :
        \E r \in {set_attribute(obj, name, value)} :
            /\ obj' = r.obj
            /\ top' = [fn |-> "set_attribute", name |-> name, arg |-> value, before |-> obj,
                       outcome |-> r.outcome, value |-> NoneVal]
            /\ UNCHANGED <<buf, bit_offset, aliased, last, installed, held>>

NextAttributes ==
    \/ GetAttribute
    \/ SetAttribute

SpecAttributes == InitAttributes /\ [][NextAttributes]_vars

\* the slot a DSDL name stands for on the object the call was made on
Suffixed(name) == name \o "_"
Exists(name) == hasattr(top.before, name) \/ hasattr(top.before, Suffixed(name))
Slot(name) == IF hasattr(top.before, name) THEN name ELSE Suffixed(name)

\* C12: get_attribute and set_attribute resolve a DSDL name to the same slot,
\* `name` first and `name_` second: where one of the two exists, get_attribute
\* returns the value of that slot, get_attribute after set_attribute returns the
\* value set, and set_attribute changes that slot only and creates no attribute.
C12_SameSlot ==
    /\ (top.fn = "get_attribute" /\ Exists(top.name))
            => /\ top.outcome = "ok"
               /\ top.value = top.before[Slot(top.name)]
               /\ obj = top.before
    /\ (top.fn = "set_attribute" /\ Exists(top.name))
            => /\ top.outcome = "ok"
               /\ get_attribute(obj, top.name) = [outcome |-> "ok", value |-> top.arg]
               /\ DOMAIN obj = DOMAIN top.before
               /\ obj[Slot(top.name)] = top.arg
               /\ \A a \in DOMAIN obj \ {Slot(top.name)} : obj[a] = top.before[a]

\* a value written through the DSDL name of a reserved word, changing the slot
C12_Witness ==
    /\ top.fn = "set_attribute"
    /\ top.name = "def"
    /\ hasattr(top.before, "def_")
    /\ ~hasattr(obj, "def")
    /\ top.before["def_"] # obj["def_"]

\* C13: where neither `name` nor `name_` exists, get_attribute and set_attribute
\* raise AttributeError and set_attribute leaves the object as it was.
C13_MissingAttribute ==
    (top.fn \in {"get_attribute", "set_attribute"} /\ ~Exists(top.name))
        => /\ top.outcome = "AttributeError"
           /\ top.value = NoneVal
           /\ obj = top.before

\* set_attribute of a name the object does not have, after an earlier write
C13_Witness ==
    /\ top.fn = "set_attribute"
    /\ top.name = "missing"
    /\ top.outcome = "AttributeError"
    /\ DOMAIN obj # {}
    /\ \E a \in DOMAIN obj : obj[a] = IntVal(MaxValue)

====
